---- MODULE Spec2Model ----
(***************************************************************************)
(* Model of the track backend of src/src/main.rs: the six HTTP handlers    *)
(* (upload, get_tracks, stream_audio, delete_audio, stream_demo,           *)
(* get_demo_details), the tracks table behind the Mutex<Connection>, and   *)
(* the upload directory.                                                   *)
(*                                                                         *)
(* Every request runs in its own slot of `req`; slots are started in       *)
(* order and at most MaxConc of them are in flight at once.  A step of a   *)
(* request is one access to the shared state (one file-system call, one    *)
(* lock acquisition, one store statement); the purely local work between   *)
(* two such accesses is folded into the step that follows it.              *)
(*                                                                         *)
(* Strings are sequences of one-character strings.  A file name is the     *)
(* pair <<sanitize(title), demo_id>> (the ".mp3" suffix is constant), a    *)
(* file_url is the pair <<"/audio/", file name>>.                          *)
(***************************************************************************)
EXTENDS Integers, Sequences, FiniteSets, TLC

\* Number of requests of one run, and of requests in flight at once.
MaxReqs == 3
MaxConc == 2

\* Number of injected failures of one run: I/O errors, store errors and
\* broken request streams that the environment may produce at any time.
MaxFaults == 1

\* Number of requests of one run of SpecLifecycle.
MaxLifecycle == 2

\* Number of requests of one run of SpecTracks.
MaxTracks == 2

\* Number of requests of one run of SpecUploads.
MaxUploads == 2

\* Number of requests of one run of SpecPair.
MaxPair == 2

\* Number of requests of one run of SpecStored, after the stored upload.
MaxAfter == 2

\* Number of requests of one run of SpecStore.
MaxStore == 2

Reqs == 1..MaxReqs

----------------------------------------------------------------------------
(* Multipart bodies *)

Part(n, cs) == [name |-> n, chunks |-> cs]

\* The multipart bodies a client sends to /upload: each a sequence of parts,
\* each part a field name and the chunks its value arrives in.
Bodies ==
  << \* user_id, title (with a path separator), file in two chunks
     << Part("user_id", << <<"u">> >>), Part("title", << <<"s", "/">> >>),
        Part("file", << <<"x">>, <<"y">> >>) >>,
     \* a field that recurs, its value arriving in two chunks; a scalar part
     \* after the file part
     << Part("artist", << <<"a">> >>), Part("artist", << <<"b">>, <<"c">> >>),
        Part("file", << <<"x">> >>), Part("title", << <<"s">> >>) >>,
     \* empty file part
     << Part("user_id", << <<"v">> >>), Part("file", << >>) >>,
     \* no file part
     << Part("artist", << <<"a">> >>) >>
  >>

\* A byte above 0x7F, which a header value may hold and which is not visible
\* ASCII.
Obs == "obs"

\* The user_id header of GET /tracks: absent, or one value.
Headers == { << >>, << <<"u">> >>, << <<"v">> >>, << <<Obs>> >> }

\* value.to_str().unwrap_or(""): the value when all of it is visible ASCII,
\* else the empty string.
HeaderStr(value) ==
  IF \E k \in DOMAIN value : value[k] = Obs THEN << >> ELSE value

\* A file name no upload produces.
NoSuchFile == << <<"z">>, 0 >>
NoFile == << << >>, 0 >>

RECURSIVE Flatten(_)
Flatten(cs) == IF cs = << >> THEN << >> ELSE Head(cs) \o Flatten(Tail(cs))

\* sanitize_filename::sanitize, on the alphabet of the model: the path
\* separator is removed, every other character is kept.
RECURSIVE sanitize(_)
sanitize(s) ==
  IF s = << >> THEN << >>
  ELSE IF Head(s) = "/" THEN sanitize(Tail(s))
       ELSE <<Head(s)>> \o sanitize(Tail(s))

\* FileName without the demo_id.
FileNameOfTitle(title, demo_id) == << sanitize(title), 0 >>

\* format!("{}-{}.{}", sanitize(&title), demo_id, "mp3")
FileName(title, demo_id) == << sanitize(title), demo_id >>

\* format!("/audio/{}", filename), and the {filename} of route /audio/{filename}
FileUrl(filename) == << "/audio/", filename >>
PathFileName(url) == url[2]

\* The value a scalar field's loop leaves in its variable: every chunk is
\* assigned to the variable, so the variable ends as the last chunk; a part
\* without chunks leaves it as it was.
ScalarValue(old, chunks) ==
  IF chunks = << >> THEN old ELSE chunks[Len(chunks)]

----------------------------------------------------------------------------
VARIABLES
  tracks,    \* the rows of table tracks, in rowid order
  files,     \* the upload directory: file name -> bytes
  lock,      \* the request holding the Mutex<Connection>, 0 when free
  poisoned,  \* the mutex was poisoned by a panic of its holder
  nextId,    \* the demo identifiers minted so far, plus one
  nreq,      \* the requests started so far
  req        \* the requests: handler, position, locals and response

vars == << tracks, files, lock, poisoned, nextId, nreq, req >>

Idle ==
  [ kind |-> "none", pc |-> "idle",
    filename |-> NoFile,       \* path parameter, or upload's filename
    demo_id |-> 0,             \* path parameter, or upload's demo_id
    header |-> << >>,          \* get_tracks: the user_id header
    body |-> 0,                \* upload: index of the body in Bodies
    rest |-> << >>,            \* upload: the parts not yet taken from the stream
    chunks |-> << >>,          \* upload: the chunks of the file part not yet taken
    user_id |-> << >>, artist |-> << >>, title |-> << >>,
    f |-> "none",              \* upload: the io::Result<File> held in f
    iofail |-> FALSE,          \* upload: a create or write of this request failed
    faults |-> 0,              \* the failures injected into this request
    status |-> 0,              \* response status; 0 while running, -1 after a panic
    out |-> << >>,             \* response body
    prior |-> {} ]             \* the requests that had responded when this one started

InFlight == { i \in Reqs : req[i].pc \notin {"idle", "done"} }
Done(i) == req[i].pc = "done"

Row(r) == [ artist |-> r.artist, title |-> r.title, file_path |-> r.filename,
            demo_id |-> r.demo_id, user_id |-> r.user_id ]

\* The Track a row is mapped to by get_tracks and get_demo_details.
Track(row) == [ artist |-> row.artist, title |-> row.title,
                file_url |-> FileUrl(row.file_path), demo_id |-> row.demo_id ]

\* The handler returns: its locals are dropped; the request keeps what it was
\* sent, what it minted and what it answered.
Respond(r, status, out) ==
  [ Idle EXCEPT !.kind = r.kind, !.pc = "done", !.filename = r.filename,
                !.demo_id = r.demo_id, !.header = r.header, !.body = r.body,
                !.iofail = r.iofail, !.faults = r.faults,
                !.prior = r.prior,
                !.status = status, !.out = out ]

Init ==
  /\ tracks = << >>
  /\ files = [ n \in {} |-> << >> ]
  /\ lock = 0
  /\ poisoned = FALSE
  /\ nextId = 1
  /\ nreq = 0
  /\ req = [ i \in Reqs |-> Idle ]

Update(i, r) == req' = [ req EXCEPT ![i] = r ]

\* The environment may still inject a failure; Failed(r) is r after one.
RECURSIVE FaultsUpTo(_)
FaultsUpTo(n) == IF n = 0 THEN 0 ELSE req[n].faults + FaultsUpTo(n - 1)
CanFail == FaultsUpTo(MaxReqs) < MaxFaults
Failed(r) == [ r EXCEPT !.faults = @ + 1 ]

\* A request arrives: the next slot, while fewer than MaxConc are in flight.
CanStart(i) == i = nreq + 1 /\ i \in Reqs /\ Cardinality(InFlight) < MaxConc

Arrive(i, r) ==
  /\ CanStart(i)
  /\ nreq' = nreq + 1
  /\ Update(i, r)

\* The requests that have responded: a reading request notes them as it
\* arrives.
Responded == { j \in Reqs : Done(j) }

\* The file names a DELETE or GET /audio/{filename} may name: those of the
\* files and rows there are, and one of no file.
KnownFiles ==
  DOMAIN files \cup { tracks[k].file_path : k \in DOMAIN tracks } \cup {NoSuchFile}

----------------------------------------------------------------------------
(* POST /upload *)

\* fs::create_dir_all succeeds; Uuid::new_v4 mints a fresh demo_id.
UploadStart(i) ==
  \E b \in DOMAIN Bodies :
    /\ Arrive(i, [ Idle EXCEPT !.kind = "upload", !.pc = "up_next", !.body = b,
                               !.rest = Bodies[b], !.demo_id = nextId ])
    /\ nextId' = nextId + 1
    /\ UNCHANGED << tracks, files, lock, poisoned >>

\* fs::create_dir_all fails: 500, before the payload is read.
UploadDirFail(i) ==
  /\ CanFail
  /\ Arrive(i, Respond(Failed([ Idle EXCEPT !.kind = "upload" ]), 500, << >>))
  /\ UNCHANGED << tracks, files, lock, poisoned, nextId >>

\* One scalar part: the loop over its chunks assigns to the variable of its
\* name.
TakeScalar(r) ==
  LET part == Head(r.rest)
      r1 == [ r EXCEPT !.rest = Tail(r.rest) ]
  IN CASE part.name = "user_id" ->
            [ r1 EXCEPT !.user_id = ScalarValue(r.user_id, part.chunks) ]
       [] part.name = "artist" ->
            [ r1 EXCEPT !.artist = ScalarValue(r.artist, part.chunks) ]
       [] part.name = "title" ->
            [ r1 EXCEPT !.title = ScalarValue(r.title, part.chunks) ]
       [] OTHER -> r1

\* The while-let loop over payload.try_next(), up to the part named "file"
\* or the end of the stream.
RECURSIVE ReadFields(_)
ReadFields(r) ==
  IF r.rest = << >> \/ Head(r.rest).name = "file" THEN r
  ELSE ReadFields(TakeScalar(r))

\* The parts of the stream are read up to the file part, whose filename is
\* derived from the title read so far; the stream ending (Ok(None)) without a
\* file part ends the loop: 400.
UploadFields(i) ==
  LET r == req[i]
      r2 == ReadFields(r)
  IN
  /\ r.pc = "up_next"
  /\ IF r2.rest = << >>
     THEN Update(i, Respond(r2, 400, << >>))
     ELSE Update(i, [ r2 EXCEPT !.pc = "up_create", !.rest = Tail(r2.rest),
                                !.chunks = Head(r2.rest).chunks,
                                !.filename = FileName(r2.title, r2.demo_id) ])
  /\ UNCHANGED << tracks, files, lock, poisoned, nextId, nreq >>

\* payload.try_next() yields Err at some part before the file part: the loop
\* ends, 400.
UploadStreamErr(i) ==
  LET r == req[i] IN
  /\ r.pc = "up_next" /\ CanFail
  /\ Update(i, Respond(Failed(r), 400, << >>))
  /\ UNCHANGED << tracks, files, lock, poisoned, nextId, nreq >>

\* A chunk of a scalar part is an error, or is not UTF-8: unwrap() panics.
UploadScalarPanic(i) ==
  LET r == req[i] IN
  /\ r.pc = "up_next" /\ CanFail
  /\ \E k \in DOMAIN r.rest :
       /\ r.rest[k].name # "file" /\ r.rest[k].chunks # << >>
       /\ \A m \in 1..(k - 1) : r.rest[m].name # "file"
  /\ Update(i, Respond(Failed(r), -1, << >>))
  /\ UNCHANGED << tracks, files, lock, poisoned, nextId, nreq >>

\* web::block(File::create): Ok(Ok(file)) or Ok(Err(io error)); both are
\* bound to f by the arm Ok(f) => f.
UploadCreate(i) ==
  LET r == req[i] IN
  /\ r.pc = "up_create"
  /\ \/ /\ files' = [ n \in DOMAIN files \cup {r.filename} |->
                        IF n = r.filename THEN << >> ELSE files[n] ]
        /\ Update(i, [ r EXCEPT !.pc = "up_chunk", !.f = "ok" ])
     \/ /\ CanFail
        /\ UNCHANGED files
        /\ Update(i, [ Failed(r) EXCEPT !.pc = "up_chunk", !.f = "err",
                                        !.iofail = TRUE ])
  /\ UNCHANGED << tracks, lock, poisoned, nextId, nreq >>

\* field.next() yields a chunk and web::block writes it: f.unwrap() panics
\* inside the closure when f is an Err (BlockingError, 500); write_all
\* succeeds, or fails and leaves its io error in f.
\* The file name belongs to this request alone, so the directory entry, while
\* there is one, is this request's file; after an unlink the bytes go to the
\* unlinked file.
UploadWrite(i) ==
  LET r == req[i] IN
  /\ r.pc = "up_chunk" /\ r.chunks # << >>
  /\ IF r.f = "err"
     THEN /\ Update(i, Respond(r, 500, << >>))
          /\ UNCHANGED files
     ELSE \/ /\ files' = [ n \in DOMAIN files |->
                             IF n = r.filename THEN files[n] \o Head(r.chunks)
                             ELSE files[n] ]
             /\ Update(i, [ r EXCEPT !.chunks = Tail(r.chunks) ])
          \/ /\ CanFail
             /\ UNCHANGED files
             /\ Update(i, [ Failed(r) EXCEPT !.chunks = Tail(r.chunks),
                                             !.f = "err", !.iofail = TRUE ])
  /\ UNCHANGED << tracks, lock, poisoned, nextId, nreq >>

\* field.next() yields Some(Err): 500.
UploadChunkErr(i) ==
  LET r == req[i] IN
  /\ r.pc = "up_chunk" /\ r.chunks # << >> /\ CanFail
  /\ Update(i, Respond(Failed(r), 500, << >>))
  /\ UNCHANGED << tracks, files, lock, poisoned, nextId, nreq >>

\* The chunks are exhausted; db.lock(): waits for the mutex, Err when it is
\* poisoned (500).
UploadLock(i) ==
  LET r == req[i] IN
  /\ r.pc = "up_chunk" /\ r.chunks = << >>
  /\ lock = 0
  /\ IF poisoned
     THEN /\ Update(i, Respond(r, 500, << >>))
          /\ UNCHANGED lock
     ELSE /\ Update(i, [ r EXCEPT !.pc = "up_insert" ])
          /\ lock' = i
  /\ UNCHANGED << tracks, files, poisoned, nextId, nreq >>

\* UploadInsert with the error of the INSERT logged and not returned.
UploadInsertNoReturn(i) ==
  LET r == req[i] IN
  /\ r.pc = "up_insert"
  /\ \/ /\ tracks' = Append(tracks, Row(r))
        /\ Update(i, Respond(r, 200, [ demo_id |-> r.demo_id,
                                       file_url |-> FileUrl(r.filename) ]))
     \/ /\ CanFail
        /\ UNCHANGED tracks
        /\ Update(i, Respond(Failed(r), 200, [ demo_id |-> r.demo_id,
                                               file_url |-> FileUrl(r.filename) ]))
  /\ lock' = 0
  /\ UNCHANGED << files, poisoned, nextId, nreq >>

\* conn.execute(INSERT ...): the row is appended and the response is 200
\* with demo_id and file_url, or the statement fails (500).  The guard is
\* dropped on return.
UploadInsert(i) ==
  LET r == req[i] IN
  /\ r.pc = "up_insert"
  /\ \/ /\ tracks' = Append(tracks, Row(r))
        /\ Update(i, Respond(r, 200, [ demo_id |-> r.demo_id,
                                       file_url |-> FileUrl(r.filename) ]))
     \/ /\ CanFail
        /\ UNCHANGED tracks
        /\ Update(i, Respond(Failed(r), 500, << >>))
  /\ lock' = 0
  /\ UNCHANGED << files, poisoned, nextId, nreq >>

upload(i) ==
  \/ UploadStart(i) \/ UploadDirFail(i)
  \/ UploadFields(i) \/ UploadStreamErr(i) \/ UploadScalarPanic(i)
  \/ UploadCreate(i) \/ UploadWrite(i) \/ UploadChunkErr(i)
  \/ UploadLock(i) \/ UploadInsert(i)

----------------------------------------------------------------------------
(* GET /tracks *)

GetTracksStart(i) ==
  \E h \in Headers :
    /\ Arrive(i, [ Idle EXCEPT !.kind = "get_tracks", !.pc = "gt_lock",
                               !.prior = Responded,
                               !.header = h ])
    /\ UNCHANGED << tracks, files, lock, poisoned, nextId >>

\* db.lock(): waits for the mutex, Err when it is poisoned (500).
GetTracksLock(i) ==
  LET r == req[i] IN
  /\ r.pc = "gt_lock"
  /\ lock = 0
  /\ IF poisoned
     THEN /\ Update(i, Respond(r, 500, << >>))
          /\ UNCHANGED lock
     ELSE /\ Update(i, [ r EXCEPT !.pc = "gt_query" ])
          /\ lock' = i
  /\ UNCHANGED << tracks, files, poisoned, nextId, nreq >>

\* SelectByUser without its WHERE clause.
SelectAllUsers(u) ==
  LET RECURSIVE Sel(_)
      Sel(rows) == IF rows = << >> THEN << >>
                   ELSE << Track(Head(rows)) >> \o Sel(Tail(rows))
  IN Sel(tracks)

\* SELECT ... WHERE user_id = ?1, in storage order.
SelectByUser(u) ==
  LET RECURSIVE Sel(_)
      Sel(rows) == IF rows = << >> THEN << >>
                   ELSE IF Head(rows).user_id = u
                        THEN << Track(Head(rows)) >> \o Sel(Tail(rows))
                        ELSE Sel(Tail(rows))
  IN Sel(tracks)

\* With the lock held: 400 when the header is missing; else the query, whose
\* prepare or query_map may fail (500), and whose rows are unwrapped (a row
\* error panics with the guard alive, which poisons the mutex).  The guard is
\* dropped on return.
GetTracksQuery(i) ==
  LET r == req[i] IN
  /\ r.pc = "gt_query"
  /\ IF r.header = << >>
     THEN /\ Update(i, Respond(r, 400, << >>))
          /\ UNCHANGED poisoned
     ELSE \/ /\ Update(i, Respond(r, 200, SelectByUser(HeaderStr(r.header[1]))))
             /\ UNCHANGED poisoned
          \/ /\ CanFail
             /\ Update(i, Respond(Failed(r), 500, << >>))
             /\ UNCHANGED poisoned
          \/ /\ CanFail
             /\ Update(i, Respond(Failed(r), -1, << >>))
             /\ poisoned' = TRUE
  /\ lock' = 0
  /\ UNCHANGED << tracks, files, nextId, nreq >>

get_tracks(i) == GetTracksStart(i) \/ GetTracksLock(i) \/ GetTracksQuery(i)

----------------------------------------------------------------------------
(* GET /audio/{filename} *)

StreamAudioStart(i) ==
  \E n \in KnownFiles :
    /\ Arrive(i, [ Idle EXCEPT !.kind = "stream_audio", !.pc = "sa_exists",
                               !.prior = Responded,
                               !.filename = n ])
    /\ UNCHANGED << tracks, files, lock, poisoned, nextId >>

\* filepath.exists()
StreamAudioExists(i) ==
  LET r == req[i] IN
  /\ r.pc = "sa_exists"
  /\ IF r.filename \in DOMAIN files
     THEN Update(i, [ r EXCEPT !.pc = "sa_read" ])
     ELSE Update(i, Respond(r, 404, << >>))
  /\ UNCHANGED << tracks, files, lock, poisoned, nextId, nreq >>

\* StreamAudioRead with the file removed once it is served.
StreamAudioReadOnce(i) ==
  LET r == req[i] IN
  /\ r.pc = "sa_read"
  /\ IF r.filename \in DOMAIN files
     THEN /\ Update(i, Respond(r, 200, files[r.filename]))
          /\ files' = [ n \in DOMAIN files \ {r.filename} |-> files[n] ]
     ELSE /\ Update(i, Respond(r, -1, << >>))
          /\ UNCHANGED files
  /\ UNCHANGED << tracks, lock, poisoned, nextId, nreq >>

\* fs::read(filepath).unwrap(): the bytes, or a panic when the file is gone.
StreamAudioRead(i) ==
  LET r == req[i] IN
  /\ r.pc = "sa_read"
  /\ IF r.filename \in DOMAIN files
     THEN Update(i, Respond(r, 200, files[r.filename]))
     ELSE Update(i, Respond(r, -1, << >>))
  /\ UNCHANGED << tracks, files, lock, poisoned, nextId, nreq >>

stream_audio(i) == StreamAudioStart(i) \/ StreamAudioExists(i) \/ StreamAudioRead(i)

----------------------------------------------------------------------------
(* DELETE /audio/{filename} *)

\* DELETE FROM tracks WHERE file_path = ?1
DeleteByPath(n) ==
  LET RECURSIVE Keep(_)
      Keep(rows) == IF rows = << >> THEN << >>
                    ELSE IF Head(rows).file_path = n THEN Keep(Tail(rows))
                         ELSE << Head(rows) >> \o Keep(Tail(rows))
  IN Keep(tracks)

DeleteStart(i) ==
  \E n \in KnownFiles :
    /\ Arrive(i, [ Idle EXCEPT !.kind = "delete_audio", !.pc = "da_exists",
                               !.filename = n ])
    /\ UNCHANGED << tracks, files, lock, poisoned, nextId >>

\* DeleteExists with the rows of a missing file purged before the 404.
DeleteExistsPurge(i) ==
  LET r == req[i] IN
  /\ r.pc = "da_exists"
  /\ IF r.filename \in DOMAIN files
     THEN /\ Update(i, [ r EXCEPT !.pc = "da_remove" ])
          /\ UNCHANGED tracks
     ELSE /\ Update(i, Respond(r, 404, << >>))
          /\ tracks' = DeleteByPath(r.filename)
  /\ UNCHANGED << files, lock, poisoned, nextId, nreq >>

\* filepath.exists(): 404 when it does not.
DeleteExists(i) ==
  LET r == req[i] IN
  /\ r.pc = "da_exists"
  /\ IF r.filename \in DOMAIN files
     THEN Update(i, [ r EXCEPT !.pc = "da_remove" ])
     ELSE Update(i, Respond(r, 404, << >>))
  /\ UNCHANGED << tracks, files, lock, poisoned, nextId, nreq >>

\* DeleteRemove with the error of fs::remove_file logged and not returned.
DeleteRemoveNoReturn(i) ==
  LET r == req[i] IN
  /\ r.pc = "da_remove"
  /\ \/ /\ r.filename \in DOMAIN files
        /\ files' = [ n \in DOMAIN files \ {r.filename} |-> files[n] ]
        /\ Update(i, [ r EXCEPT !.pc = "da_lock" ])
     \/ /\ r.filename \in DOMAIN files => CanFail
        /\ UNCHANGED files
        /\ Update(i, [ (IF r.filename \in DOMAIN files THEN Failed(r) ELSE r)
                         EXCEPT !.pc = "da_lock" ])
  /\ UNCHANGED << tracks, lock, poisoned, nextId, nreq >>

\* DeleteRemove with a file that is gone by now taken as removed.
DeleteRemoveForce(i) ==
  LET r == req[i] IN
  /\ r.pc = "da_remove"
  /\ \/ /\ files' = [ n \in DOMAIN files \ {r.filename} |-> files[n] ]
        /\ Update(i, [ r EXCEPT !.pc = "da_lock" ])
     \/ /\ CanFail
        /\ UNCHANGED files
        /\ Update(i, Respond(Failed(r), 500, << >>))
  /\ UNCHANGED << tracks, lock, poisoned, nextId, nreq >>

\* fs::remove_file: the directory entry is removed, or the call fails (it
\* must when the file is gone by now) and the response is 500.
DeleteRemove(i) ==
  LET r == req[i] IN
  /\ r.pc = "da_remove"
  /\ \/ /\ r.filename \in DOMAIN files
        /\ files' = [ n \in DOMAIN files \ {r.filename} |-> files[n] ]
        /\ Update(i, [ r EXCEPT !.pc = "da_lock" ])
     \/ /\ r.filename \in DOMAIN files => CanFail
        /\ UNCHANGED files
        /\ Update(i, Respond(IF r.filename \in DOMAIN files THEN Failed(r) ELSE r,
                              500, << >>))
  /\ UNCHANGED << tracks, lock, poisoned, nextId, nreq >>

\* DeleteLock that goes on to its statement without waiting for the mutex.
DeleteLockNoWait(i) ==
  LET r == req[i] IN
  /\ r.pc = "da_lock"
  /\ IF poisoned
     THEN /\ Update(i, Respond(r, 500, << >>))
          /\ UNCHANGED lock
     ELSE /\ Update(i, [ r EXCEPT !.pc = "da_rows" ])
          /\ lock' = i
  /\ UNCHANGED << tracks, files, poisoned, nextId, nreq >>

\* db.lock(): waits for the mutex, Err when it is poisoned (500).
DeleteLock(i) ==
  LET r == req[i] IN
  /\ r.pc = "da_lock"
  /\ lock = 0
  /\ IF poisoned
     THEN /\ Update(i, Respond(r, 500, << >>))
          /\ UNCHANGED lock
     ELSE /\ Update(i, [ r EXCEPT !.pc = "da_rows" ])
          /\ lock' = i
  /\ UNCHANGED << tracks, files, poisoned, nextId, nreq >>

\* conn.execute(DELETE ...): the rows are deleted (200), or the statement
\* fails (500).  The guard is dropped on return.
DeleteRows(i) ==
  LET r == req[i] IN
  /\ r.pc = "da_rows"
  /\ \/ /\ tracks' = DeleteByPath(r.filename)
        /\ Update(i, Respond(r, 200, << >>))
     \/ /\ CanFail
        /\ UNCHANGED tracks
        /\ Update(i, Respond(Failed(r), 500, << >>))
  /\ lock' = 0
  /\ UNCHANGED << files, poisoned, nextId, nreq >>

delete_audio(i) ==
  \/ DeleteStart(i) \/ DeleteExists(i) \/ DeleteRemove(i)
  \/ DeleteLock(i) \/ DeleteRows(i)

----------------------------------------------------------------------------
(* GET /demo/{demo_id} and GET /demo_details/{demo_id} *)

\* The demo identifiers a request may name: the minted ones, and 0 (none).
KnownDemos == 0..(nextId - 1)

\* query_row of SELECT ... WHERE demo_id = ?1: the first matching row, as a
\* sequence of at most one row.
SelectByDemo(d) ==
  LET hits == { k \in DOMAIN tracks : tracks[k].demo_id = d }
  IN IF hits = {} THEN << >>
     ELSE << tracks[CHOOSE k \in hits : \A m \in hits : k <= m] >>

StreamDemoStart(i) ==
  \E d \in KnownDemos :
    /\ Arrive(i, [ Idle EXCEPT !.kind = "stream_demo", !.pc = "sd_lock",
                               !.prior = Responded,
                               !.demo_id = d ])
    /\ UNCHANGED << tracks, files, lock, poisoned, nextId >>

\* db.lock(): waits for the mutex, Err when it is poisoned (500).
StreamDemoLock(i) ==
  LET r == req[i] IN
  /\ r.pc = "sd_lock"
  /\ lock = 0
  /\ IF poisoned
     THEN /\ Update(i, Respond(r, 500, << >>))
          /\ UNCHANGED lock
     ELSE /\ Update(i, [ r EXCEPT !.pc = "sd_query" ])
          /\ lock' = i
  /\ UNCHANGED << tracks, files, poisoned, nextId, nreq >>

\* prepare fails (500); query_row finds no row or fails (404); or it yields
\* the file_path, and the handler goes on with the guard alive.
StreamDemoQuery(i) ==
  LET r == req[i]
      hit == SelectByDemo(r.demo_id)
  IN
  /\ r.pc = "sd_query"
  /\ \/ /\ CanFail
        /\ Update(i, Respond(Failed(r), 500, << >>))
        /\ lock' = 0
     \/ /\ hit # << >> => CanFail
        /\ Update(i, Respond(IF hit # << >> THEN Failed(r) ELSE r, 404, << >>))
        /\ lock' = 0
     \/ /\ hit # << >>
        /\ Update(i, [ r EXCEPT !.pc = "sd_exists", !.filename = hit[1].file_path ])
        /\ UNCHANGED lock
  /\ UNCHANGED << tracks, files, poisoned, nextId, nreq >>

\* filepath.exists(), with the guard alive: 404 when it does not.
StreamDemoExists(i) ==
  LET r == req[i] IN
  /\ r.pc = "sd_exists"
  /\ IF r.filename \in DOMAIN files
     THEN /\ Update(i, [ r EXCEPT !.pc = "sd_read" ])
          /\ UNCHANGED lock
     ELSE /\ Update(i, Respond(r, 404, << >>))
          /\ lock' = 0
  /\ UNCHANGED << tracks, files, poisoned, nextId, nreq >>

\* fs::read(filepath).unwrap(), with the guard alive: the bytes, or a panic
\* when the file is gone, which poisons the mutex.
StreamDemoRead(i) ==
  LET r == req[i] IN
  /\ r.pc = "sd_read"
  /\ IF r.filename \in DOMAIN files
     THEN /\ Update(i, Respond(r, 200, files[r.filename]))
          /\ UNCHANGED poisoned
     ELSE /\ Update(i, Respond(r, -1, << >>))
          /\ poisoned' = TRUE
  /\ lock' = 0
  /\ UNCHANGED << tracks, files, nextId, nreq >>

stream_demo(i) ==
  \/ StreamDemoStart(i) \/ StreamDemoLock(i) \/ StreamDemoQuery(i)
  \/ StreamDemoExists(i) \/ StreamDemoRead(i)

GetDemoDetailsStart(i) ==
  \E d \in KnownDemos :
    /\ Arrive(i, [ Idle EXCEPT !.kind = "get_demo_details", !.pc = "dd_lock",
                               !.prior = Responded,
                               !.demo_id = d ])
    /\ UNCHANGED << tracks, files, lock, poisoned, nextId >>

\* db.lock().unwrap(): waits for the mutex, panics when it is poisoned.
GetDemoDetailsLock(i) ==
  LET r == req[i] IN
  /\ r.pc = "dd_lock"
  /\ lock = 0
  /\ IF poisoned
     THEN /\ Update(i, Respond(r, -1, << >>))
          /\ UNCHANGED lock
     ELSE /\ Update(i, [ r EXCEPT !.pc = "dd_query" ])
          /\ lock' = i
  /\ UNCHANGED << tracks, files, poisoned, nextId, nreq >>

\* prepare(...).expect() panics on failure, with the guard alive; query_row
\* yields the Track (200), or finds no row or fails (404).
GetDemoDetailsQuery(i) ==
  LET r == req[i]
      hit == SelectByDemo(r.demo_id)
  IN
  /\ r.pc = "dd_query"
  /\ \/ /\ CanFail
        /\ Update(i, Respond(Failed(r), -1, << >>))
        /\ poisoned' = TRUE
     \/ /\ hit # << >> => CanFail
        /\ Update(i, Respond(IF hit # << >> THEN Failed(r) ELSE r, 404, << >>))
        /\ UNCHANGED poisoned
     \/ /\ hit # << >>
        /\ Update(i, Respond(r, 200, Track(hit[1])))
        /\ UNCHANGED poisoned
  /\ lock' = 0
  /\ UNCHANGED << tracks, files, nextId, nreq >>

get_demo_details(i) ==
  GetDemoDetailsStart(i) \/ GetDemoDetailsLock(i) \/ GetDemoDetailsQuery(i)

----------------------------------------------------------------------------
Next ==
  \E i \in Reqs :
    \/ upload(i) \/ get_tracks(i) \/ stream_audio(i)
    \/ delete_audio(i) \/ stream_demo(i) \/ get_demo_details(i)

Spec == Init /\ [][Next]_vars

\* The requests that change the store and the directory, alone, in runs of
\* at most MaxLifecycle requests.
NextLifecycle == \E i \in 1..MaxLifecycle : upload(i) \/ delete_audio(i)

SpecLifecycle == Init /\ [][NextLifecycle]_vars

\* Uploads, deletes and lists of tracks, in runs of at most MaxTracks
\* requests.
NextTracks ==
  \E i \in 1..MaxTracks : upload(i) \/ delete_audio(i) \/ get_tracks(i)

SpecTracks == Init /\ [][NextTracks]_vars

\* Uploads alone, in runs of at most MaxUploads requests.
NextUploads == \E i \in 1..MaxUploads : upload(i)

SpecUploads == Init /\ [][NextUploads]_vars

\* All six services, in runs of at most MaxPair requests.
NextPair ==
  \E i \in 1..MaxPair :
    \/ upload(i) \/ get_tracks(i) \/ stream_audio(i)
    \/ delete_audio(i) \/ stream_demo(i) \/ get_demo_details(i)

SpecPair == Init /\ [][NextPair]_vars

\* The five services that use the store, in runs of at most MaxStore
\* requests.
NextStore ==
  \E i \in 1..MaxStore :
    \/ upload(i) \/ get_tracks(i) \/ delete_audio(i)
    \/ stream_demo(i) \/ get_demo_details(i)

SpecStore == Init /\ [][NextStore]_vars

\* A step of the handler of a request that has arrived.
Progress(i) ==
  /\ req[i].kind # "none"
  /\ \/ upload(i) \/ get_tracks(i) \/ stream_audio(i)
     \/ delete_audio(i) \/ stream_demo(i) \/ get_demo_details(i)

\* SpecPair under fair scheduling: a handler that can step does step.
SpecPairFair == SpecPair /\ \A i \in 1..MaxPair : WF_vars(Progress(i))

\* The upload of Bodies[1] as it stands when its file part is reached.
StoredRequest ==
  LET r == ReadFields([ Idle EXCEPT !.kind = "upload", !.body = 1,
                                    !.rest = Bodies[1], !.demo_id = 1 ])
  IN [ r EXCEPT !.filename = FileName(r.title, 1) ]

\* The state after one upload of Bodies[1] has responded 200.
InitStored ==
  /\ tracks = << Row(StoredRequest) >>
  /\ files = [ n \in {StoredRequest.filename} |-> << "x", "y" >> ]
  /\ lock = 0
  /\ poisoned = FALSE
  /\ nextId = 2
  /\ nreq = 1
  /\ req = [ i \in Reqs |->
             IF i = 1
             THEN Respond(StoredRequest, 200,
                          [ demo_id |-> 1,
                            file_url |-> FileUrl(StoredRequest.filename) ])
             ELSE Idle ]

\* Uploads and deletes after the stored upload, in runs of at most MaxAfter
\* further requests.
NextStored == \E i \in 2..(MaxAfter + 1) : upload(i) \/ delete_audio(i)

SpecStored == InitStored /\ [][NextStored]_vars

TypeOK ==
  /\ lock \in {0} \cup Reqs
  /\ poisoned \in BOOLEAN
  /\ nreq \in 0..MaxReqs
  /\ \A i \in Reqs : req[i].status \in {-1, 0, 200, 400, 404, 500}

----------------------------------------------------------------------------
(* What a request supplied *)

Max(S) == CHOOSE x \in S : \A y \in S : y <= x
Min(S) == CHOOSE x \in S : \A y \in S : x <= y

\* The position of the file part of a body, 0 when it has none.
FileAt(parts) ==
  LET at == { k \in DOMAIN parts : parts[k].name = "file" }
  IN IF at = {} THEN 0 ELSE Min(at)

\* The bytes of the file part of a body.
FileBytes(parts) == Flatten(parts[FileAt(parts)].chunks)

\* The value a sequence of parts supplies for a scalar field: all the chunks
\* of the last part of that name, concatenated; empty without such a part.
Supplied(parts, name) ==
  LET at == { k \in DOMAIN parts : parts[k].name = name }
  IN IF at = {} THEN << >> ELSE Flatten(parts[Max(at)].chunks)

\* The parts of a body before its file part (all of them when it has none).
BeforeFile(parts) ==
  IF FileAt(parts) = 0 THEN parts ELSE SubSeq(parts, 1, FileAt(parts) - 1)

Uploads == { i \in Reqs : req[i].kind = "upload" }
Deletes == { i \in Reqs : req[i].kind = "delete_audio" }
HasRow(n) == \E k \in DOMAIN tracks : tracks[k].file_path = n
RowsOf(rows) == { rows[k] : k \in DOMAIN rows }

----------------------------------------------------------------------------
(* Claims *)

\* C1: in every reachable state, every row of tracks names a file that
\* exists in the upload directory.
C1_RowHasFile ==
  \A k \in DOMAIN tracks : tracks[k].file_path \in DOMAIN files

\* C2, as stated: whenever no request is in progress, every file of the
\* upload directory has a row whose file_path names it.
C2_NoOrphanFile ==
  InFlight = {} => \A n \in DOMAIN files : HasRow(n)

\* C2, amended: whenever no request is in progress, every file of the upload
\* directory has a row whose file_path names it, or was created by an upload
\* that responded 500 (whose file is left behind).
C2_OrphanOnlyOfFailedUpload ==
  InFlight = {} =>
    \A n \in DOMAIN files :
      \/ HasRow(n)
      \/ \E i \in Uploads : req[i].filename = n /\ req[i].status = 500

\* C2's case: all requests have responded, and a file without a row is left
\* by an upload that responded 500.
C2_Witness ==
  /\ InFlight = {}
  /\ \E i \in Uploads :
       /\ req[i].status = 500
       /\ req[i].filename \in DOMAIN files
       /\ ~HasRow(req[i].filename)

\* C3: an I/O failure while creating the file or writing a chunk makes
\* upload respond 500 without inserting a row: after such a failure the
\* request never reaches the insert, and its response is 500.
C3_IoFailureIs500 ==
  \A i \in Uploads :
    req[i].iofail =>
      /\ req[i].pc # "up_insert"
      /\ Done(i) => req[i].status = 500
      /\ \A k \in DOMAIN tracks : tracks[k].demo_id # req[i].demo_id

\* C4: a row is inserted only after every chunk of the file part has been
\* written, in order; whenever stream_demo(d) responds 200 its body is the
\* whole file part of the upload that minted d.
C4_StreamDemoIsWholeFile ==
  /\ \A j \in Uploads :
       req[j].pc = "up_insert" /\ req[j].filename \in DOMAIN files =>
         files[req[j].filename] = FileBytes(Bodies[req[j].body])
  /\ \A i \in Reqs :
       req[i].kind = "stream_demo" /\ Done(i) /\ req[i].status = 200 =>
         \A j \in Uploads :
           req[j].demo_id = req[i].demo_id =>
             req[i].out = FileBytes(Bodies[req[j].body])

\* C5: round trip.  For an upload that responded 200 with demo_id d, with no
\* delete request at all and no failure injected anywhere, a later
\* get_demo_details(d) returns the artist and title the upload supplied and
\* the file_url of its response, and a later stream_audio on that file_url's
\* filename returns the bytes of its file part.
C5_RoundTrip ==
  Deletes = {} =>
    \A j \in Uploads : \A i \in Reqs :
      ( /\ req[j].status = 200 /\ req[j].faults = 0
        /\ j \in req[i].prior /\ Done(i) /\ req[i].faults = 0 ) =>
        /\ ( req[i].kind = "get_demo_details"
               /\ req[i].demo_id = req[j].out.demo_id ) =>
             /\ req[i].status = 200
             /\ req[i].out.artist = Supplied(Bodies[req[j].body], "artist")
             /\ req[i].out.title = Supplied(Bodies[req[j].body], "title")
             /\ req[i].out.file_url = req[j].out.file_url
        /\ ( req[i].kind = "stream_audio"
               /\ req[i].filename = PathFileName(req[j].out.file_url) ) =>
             /\ req[i].status = 200
             /\ req[i].out = FileBytes(Bodies[req[j].body])

\* The scalar variables upload would hold had it read every scalar part of
\* its body.
AllScalars(parts) ==
  LET RECURSIVE All(_)
      All(r) == IF r.rest = << >> THEN r
                ELSE IF Head(r.rest).name = "file"
                     THEN All([ r EXCEPT !.rest = Tail(r.rest) ])
                     ELSE All(TakeScalar(r))
  IN All([ Idle EXCEPT !.rest = parts ])

\* C6: a successful upload inserts exactly one row, and only once the
\* multipart stream is exhausted: the row carries the values of the scalar
\* parts of the whole body, those after the file part included.
C6_InsertAtEndOfStream ==
  [][ \A i \in Uploads :
        ( req[i].pc = "up_insert" /\ req'[i].status = 200 ) =>
          /\ req[i].rest = << >>
          /\ Len(tracks') = Len(tracks) + 1
          /\ LET row == tracks'[Len(tracks')]
                 all == AllScalars(Bodies[req[i].body])
             IN /\ row.artist = all.artist
                /\ row.title = all.title
                /\ row.user_id = all.user_id ]_vars

\* C7: the value upload keeps for a scalar field is the concatenation of all
\* chunks of the last part of that name it has read.
C7_ScalarIsConcatenation ==
  \A i \in Uploads :
    req[i].pc \in {"up_create", "up_chunk", "up_insert"} =>
      LET read == BeforeFile(Bodies[req[i].body])
      IN /\ req[i].user_id = Supplied(read, "user_id")
         /\ req[i].artist = Supplied(read, "artist")
         /\ req[i].title = Supplied(read, "title")

\* C8: once delete_audio(f) has responded 200, every request that arrives
\* later finds f gone: stream_audio(f) responds 404, and a list of tracks
\* holds no track whose file_url names f.
C8_DeletedStaysDeleted ==
  \A j \in Deletes : \A i \in Reqs :
    ( req[j].status = 200 /\ j \in req[i].prior /\ Done(i) ) =>
      /\ ( req[i].kind = "stream_audio" /\ req[i].filename = req[j].filename ) =>
           req[i].status = 404
      /\ ( req[i].kind = "get_tracks" /\ req[i].status = 200 ) =>
           \A k \in DOMAIN req[i].out :
             req[i].out[k].file_url # FileUrl(req[j].filename)

\* C9: delete_audio deletes rows only after the file is removed: when the
\* removal fails the request responds 500 and the table is unchanged, and no
\* step deletes a row whose file exists.
C9_FileBeforeRows ==
  [][ /\ \A i \in Deletes :
           ( req[i].pc = "da_remove" /\ req'[i].pc = "done" ) =>
             req'[i].status = 500 /\ tracks' = tracks
      /\ \A row \in RowsOf(tracks) \ RowsOf(tracks') :
           /\ row.file_path \notin DOMAIN files
           /\ \E i \in Deletes :
                req[i].pc = "da_rows" /\ req[i].filename = row.file_path ]_vars

\* C9's case: a delete_audio whose removal of the file failed has responded
\* 500, and the file and its row are both still there.
C9_Witness ==
  \E i \in Deletes :
    /\ req[i].status = 500 /\ req[i].faults = 1
    /\ req[i].filename \in DOMAIN files
    /\ HasRow(req[i].filename)

\* C10: delete_audio on a filename that is not in the upload directory
\* responds 404 in the step that finds it missing, and that step changes no
\* row and no file and does not take the lock; no other step of a
\* delete_audio responds 404.
C10_DeleteMissingChangesNothing ==
  [][ \A i \in Deletes :
        /\ ( req[i].pc = "da_exists" /\ req[i].filename \notin DOMAIN files
               /\ req'[i] # req[i] ) =>
             req'[i].pc = "done" /\ req'[i].status = 404
        /\ ( req[i].status = 0 /\ req'[i].status = 404 ) =>
             /\ req[i].pc = "da_exists"
             /\ tracks' = tracks /\ files' = files
             /\ lock' = lock /\ lock # i ]_vars

\* C10's case: a delete_audio has responded 404 for a filename that a row
\* still names.
C10_Witness ==
  \E i \in Deletes :
    /\ req[i].status = 404
    /\ HasRow(req[i].filename)
    /\ req[i].filename \notin DOMAIN files

\* C11: an upload whose multipart stream ends or fails before a file part
\* responds 400, and has created no file and no row.
C11_NoFilePartIs400 ==
  \A i \in Uploads :
    ( Done(i) /\ req[i].demo_id # 0 /\ req[i].filename = NoFile ) =>
      /\ req[i].status = 400
      /\ \A n \in DOMAIN files : n[2] # req[i].demo_id
      /\ \A k \in DOMAIN tracks : tracks[k].demo_id # req[i].demo_id

\* The user_id that the upload which minted demo_id d put in its row.
StoredUserOf(d) ==
  LET j == CHOOSE j \in Uploads : req[j].demo_id = d
  IN ReadFields([ Idle EXCEPT !.rest = Bodies[req[j].body] ]).user_id

\* The demo_ids of the rows inserted with user_id u and not deleted.
DemosOfUser(u) ==
  { tracks[k].demo_id :
      k \in { m \in DOMAIN tracks : StoredUserOf(tracks[m].demo_id) = u } }

\* A list of tracks holds one track for each row of user u, and no other.
ListsUser(out, u) ==
  /\ { out[k].demo_id : k \in DOMAIN out } = DemosOfUser(u)
  /\ Len(out) = Cardinality(DemosOfUser(u))

Named == { i \in Uploads : req[i].filename # NoFile }
Created == { i \in Named : req[i].pc # "up_create" }

\* C13: concurrent uploads have distinct demo_ids and distinct files; with no
\* failure injected into it, an upload's file holds the chunks of its own
\* file part written so far and no other byte, and the upload responds 200,
\* leaving one row of its own and its whole file part in its file.
C13_UploadsDoNotMix ==
  /\ \A i \in Named : \A j \in Named \ {i} :
       req[i].demo_id # req[j].demo_id /\ req[i].filename # req[j].filename
  /\ \A i \in Created :
       req[i].faults = 0 =>
         /\ req[i].filename \in DOMAIN files
         /\ files[req[i].filename] \o Flatten(req[i].chunks)
              = FileBytes(Bodies[req[i].body])
         /\ Done(i) =>
              /\ req[i].status = 200
              /\ Cardinality({ k \in DOMAIN tracks :
                                 tracks[k].demo_id = req[i].demo_id }) = 1
              /\ Cardinality({ k \in DOMAIN tracks :
                                 tracks[k].file_path = req[i].filename }) = 1

\* C13's case: two uploads are in flight, and each has written the first of
\* the two chunks of its file part.
C13_Witness ==
  \E i \in Created : \E j \in Created \ {i} :
    /\ req[i].pc = "up_chunk" /\ req[j].pc = "up_chunk"
    /\ Len(req[i].chunks) = 1 /\ Len(req[j].chunks) = 1
    /\ req[i].filename \in DOMAIN files /\ req[j].filename \in DOMAIN files
    /\ files[req[i].filename] = <<"x">> /\ files[req[j].filename] = <<"x">>

\* The positions at which the next step of a handler is a filesystem call
\* (create, write, exists, read, remove), and those at which it is a store
\* statement.
FsPcs == { "up_create", "up_chunk", "sa_exists", "sa_read",
           "da_exists", "da_remove", "sd_exists", "sd_read" }
StorePcs == { "up_insert", "gt_query", "da_rows", "sd_query", "dd_query" }

\* At up_chunk with no chunk left, the next step of upload is db.lock().
AtFsCall(i) ==
  /\ req[i].pc \in FsPcs
  /\ req[i].pc = "up_chunk" => req[i].chunks # << >>

\* C14: the request that holds the store lock is at one of its store
\* statements, and no request is about to make a filesystem call while it
\* holds the lock.
C14_NoFileIoUnderLock ==
  \A i \in Reqs :
    lock = i => ( req[i].pc \in StorePcs /\ ~AtFsCall(i) )

\* The requests waiting in db.lock().
Waiting ==
  { i \in Reqs :
      \/ req[i].pc \in { "gt_lock", "da_lock", "sd_lock", "dd_lock" }
      \/ req[i].pc = "up_chunk" /\ req[i].chunks = << >> }

\* C15: a request that is at a store statement holds the lock, so at most one
\* request is at a store statement at a time; and the table changes only in
\* a step of the request that holds the lock.
C15_StoreUnderLock ==
  [][ /\ \A i \in Reqs : req[i].pc \in StorePcs => lock = i
      /\ Cardinality({ i \in Reqs : req[i].pc \in StorePcs }) <= 1
      /\ tracks' # tracks =>
           ( lock \in Reqs /\ req[lock].pc \in StorePcs
             /\ req'[lock] # req[lock] ) ]_vars

\* C15's case: one request is at its store statement while another waits for
\* the lock.
C15_Witness ==
  \E i \in Reqs : \E j \in Waiting :
    i # j /\ req[i].pc \in StorePcs /\ lock = i

\* The services that only read.
Readers == { "get_tracks", "stream_audio", "stream_demo", "get_demo_details" }

\* C16: the table changes only by the INSERT of an upload, which appends one
\* row, and by the DELETE of a delete_audio, which removes rows; a row that
\* stays keeps its fields; a step of a reading service changes neither the
\* table nor the directory.
C16_RowsChangeByInsertOrDelete ==
  [][ /\ tracks' # tracks =>
           \E i \in Reqs :
             \/ /\ req[i].kind = "upload" /\ req[i].pc = "up_insert"
                /\ Len(tracks') = Len(tracks) + 1
                /\ SubSeq(tracks', 1, Len(tracks)) = tracks
                /\ tracks'[Len(tracks')].demo_id = req[i].demo_id
             \/ /\ req[i].kind = "delete_audio" /\ req[i].pc = "da_rows"
                /\ RowsOf(tracks') \subseteq RowsOf(tracks)
      /\ \A k \in DOMAIN tracks : \A m \in DOMAIN tracks' :
           tracks'[m].demo_id = tracks[k].demo_id => tracks'[m] = tracks[k]
      /\ \A i \in Reqs :
           ( req'[i] # req[i] /\ req'[i].kind \in Readers ) =>
             ( tracks' = tracks /\ files' = files ) ]_vars

\* C16's case: with a row in the table and a file in the directory, a
\* GET /audio/{filename} has read the file and responded.
C16_Witness ==
  \E i \in Reqs :
    /\ req[i].kind = "stream_audio" /\ req[i].status = 200
    /\ tracks # << >>
    /\ req[i].filename \in DOMAIN files

\* C17: with no failure injected into any request, a GET /audio/{filename}
\* or GET /demo/{demo_id} that has ended has responded 200 or 404.
C17_StreamIs200Or404 ==
  ( \A j \in Reqs : req[j].faults = 0 ) =>
    \A i \in Reqs :
      ( Done(i) /\ req[i].kind \in { "stream_audio", "stream_demo" } ) =>
        req[i].status \in { 200, 404 }

\* C18: under fair scheduling, every request that waits for the lock
\* eventually holds it, and every request that has arrived eventually
\* responds.
C18_LockIsLive ==
  /\ \A i \in 1..MaxPair : ( i \in Waiting ) ~> ( lock = i )
  /\ \A i \in 1..MaxPair : ( req[i].kind # "none" ) ~> ( req[i].status > 0 )

\* C19: of the delete_audio requests that name one filename, at most one
\* responds 200; each of the others responds 404 or 500.
C19_OneDeleteSucceeds ==
  /\ \A i \in Deletes : \A j \in Deletes \ {i} :
       ( req[i].filename = req[j].filename /\ req[i].status = 200 ) =>
         req[j].status # 200
  /\ \A i \in Deletes : Done(i) => req[i].status \in { 200, 404, 500 }

\* C19's case: two DELETEs of the stored file have both found it; one has
\* removed it and responded 200, the other has failed to remove it: 500.
C19_Witness ==
  \E i \in Deletes : \E j \in Deletes \ {i} :
    /\ req[i].filename = StoredRequest.filename
    /\ req[j].filename = StoredRequest.filename
    /\ req[i].status = 200
    /\ req[j].status = 500 /\ req[j].faults = 0

====
